---- MODULE Spec2Model ----
(***************************************************************************)
(* Model of libmesabox/src/util/mod.rs: parse_num_with_suffix,             *)
(* parse_obsolete_num, parse_num_common and pow.                           *)
(*                                                                         *)
(* usize is the 64-bit unsigned integer of the targets mesabox is built    *)
(* for.  TLC's integers are 32 bits wide, so a usize value is a sequence   *)
(* of bytes, least significant first, without leading zero bytes           *)
(* (zero is << >>), and the arithmetic is done on those sequences.         *)
(***************************************************************************)
EXTENDS Integers, Sequences, FiniteSets, TLC

(* ------------------------------------------------------------------ *)
(* Bounds of the model                                                *)
(* ------------------------------------------------------------------ *)

\* every string over Chars of at most this length is an input
MaxLen == 3

\* pow is called with every exponent in 0..MaxExp
MaxExp == 16

(* ------------------------------------------------------------------ *)
(* Natural numbers of any size, as byte sequences                     *)
(* ------------------------------------------------------------------ *)

\* a byte holds 8 bits
LimbBase == 2 ^ 8

Zero == << >>

RECURSIVE ToBig(_)
ToBig(n) == IF n = 0 THEN << >> ELSE << n % LimbBase >> \o ToBig(n \div LimbBase)

One == ToBig(1)

RECURSIVE Norm(_)
Norm(x) ==
    IF x = << >> THEN << >>
    ELSE IF x[Len(x)] = 0 THEN Norm(SubSeq(x, 1, Len(x) - 1))
    ELSE x

RECURSIVE AddCarry(_, _, _)
AddCarry(a, b, c) ==
    IF a = << >> /\ b = << >> THEN (IF c = 0 THEN << >> ELSE << c >>)
    ELSE LET x == IF a = << >> THEN 0 ELSE Head(a)
             y == IF b = << >> THEN 0 ELSE Head(b)
             t == x + y + c
         IN  << t % LimbBase >>
               \o AddCarry(IF a = << >> THEN << >> ELSE Tail(a),
                           IF b = << >> THEN << >> ELSE Tail(b),
                           t \div LimbBase)

BigAdd(a, b) == Norm(AddCarry(a, b, 0))

RECURSIVE MulLimb(_, _, _)
MulLimb(a, d, c) ==
    IF a = << >> THEN (IF c = 0 THEN << >> ELSE << c >>)
    ELSE LET t == Head(a) * d + c
         IN  << t % LimbBase >> \o MulLimb(Tail(a), d, t \div LimbBase)

RECURSIVE BigMul(_, _)
BigMul(a, b) ==
    IF a = << >> \/ b = << >> THEN << >>
    ELSE LET rest == BigMul(Tail(a), b)
         IN  BigAdd(Norm(MulLimb(b, Head(a), 0)),
                    IF rest = << >> THEN << >> ELSE << 0 >> \o rest)

RECURSIVE BigPow(_, _)
BigPow(b, e) == IF e = 0 THEN One ELSE BigMul(b, BigPow(b, e - 1))

\* quotient and remainder of a by the small number d, most significant byte first
RECURSIVE DivSmallRev(_, _, _)
DivSmallRev(a, d, r) ==
    IF a = << >> THEN [quot |-> << >>, rem |-> r]
    ELSE LET t    == r * LimbBase + a[Len(a)]
             rest == DivSmallRev(SubSeq(a, 1, Len(a) - 1), d, t % d)
         IN  [quot |-> rest.quot \o << t \div d >>, rem |-> rest.rem]

BigDiv(a, d) == Norm(DivSmallRev(a, d, 0).quot)

BigMod(a, d) == DivSmallRev(a, d, 0).rem

\* x - 1, for x > 0
RECURSIVE Borrow(_)
Borrow(x) ==
    IF Head(x) > 0 THEN << Head(x) - 1 >> \o Tail(x)
    ELSE << LimbBase - 1 >> \o Borrow(Tail(x))

BigPred(x) == Norm(Borrow(x))

\* a < b, comparing from the most significant byte
RECURSIVE BigLess(_, _)
BigLess(a, b) ==
    IF Len(a) # Len(b) THEN Len(a) < Len(b)
    ELSE IF a = << >> THEN FALSE
    ELSE IF a[Len(a)] # b[Len(b)] THEN a[Len(a)] < b[Len(b)]
    ELSE BigLess(SubSeq(a, 1, Len(a) - 1), SubSeq(b, 1, Len(b) - 1))

(* ------------------------------------------------------------------ *)
(* usize and Option<usize>                                            *)
(* ------------------------------------------------------------------ *)

\* size_of::<usize>()
UsizeBytes == 8

RECURSIVE Rep(_, _)
Rep(n, x) == IF n = 0 THEN << >> ELSE << x >> \o Rep(n - 1, x)

\* usize::max_value()
UsizeMax == Rep(UsizeBytes, LimbBase - 1)

Fits(x) == Len(x) <= UsizeBytes

None == [is_some |-> FALSE, value |-> << >>]

Some(v) == [is_some |-> TRUE, value |-> v]

\* usize::checked_mul
checked_mul(a, b) ==
    LET p == BigMul(a, b) IN IF Fits(p) THEN Some(p) ELSE None

\* usize::checked_add
checked_add(a, b) ==
    LET p == BigAdd(a, b) IN IF Fits(p) THEN Some(p) ELSE None

(* ------------------------------------------------------------------ *)
(* Strings: sequences of one-character strings                        *)
(* ------------------------------------------------------------------ *)

DigitChars == << "0", "1", "2", "3", "4", "5", "6", "7", "8", "9" >>

IsDigit(c) == \E d \in 1..Len(DigitChars) : DigitChars[d] = c

\* char::to_digit(10) of a digit character
to_digit(c) == (CHOOSE d \in 1..Len(DigitChars) : DigitChars[d] = c) - 1

\* format!("{}", n) of a usize
RECURSIVE DecDigits(_)
DecDigits(x) ==
    IF x = << >> THEN << >>
    ELSE DecDigits(BigDiv(x, 10)) \o << DigitChars[BigMod(x, 10) + 1] >>

to_string(x) == IF x = << >> THEN << "0" >> ELSE DecDigits(x)

SUFFIXES == << "K", "M", "G", "T", "P", "E", "Z", "Y" >>

OBSOLETE_SUFFIXES == << "k", "m" >>

(* ------------------------------------------------------------------ *)
(* usize::from_str: an optional '+', then one or more decimal digits, *)
(* accumulated with checked arithmetic                                *)
(* ------------------------------------------------------------------ *)

\* usize::wrapping_mul
wrapping_mul(a, b) ==
    LET p == BigMul(a, b)
    IN  IF Fits(p) THEN p ELSE Norm(SubSeq(p, 1, UsizeBytes))

\* from_digits multiplying without the overflow check
RECURSIVE from_digits_wrapping(_, _)
from_digits_wrapping(digits, acc) ==
    IF digits = << >> THEN Some(acc)
    ELSE IF ~IsDigit(Head(digits)) THEN None
    ELSE LET a == checked_add(wrapping_mul(acc, ToBig(10)),
                              ToBig(to_digit(Head(digits))))
         IN  IF ~a.is_some THEN None
             ELSE from_digits_wrapping(Tail(digits), a.value)

RECURSIVE from_digits(_, _)
from_digits(digits, acc) ==
    IF digits = << >> THEN Some(acc)
    ELSE IF ~IsDigit(Head(digits)) THEN None
    ELSE LET m == checked_mul(acc, ToBig(10))
         IN  IF ~m.is_some THEN None
             ELSE LET a == checked_add(m.value, ToBig(to_digit(Head(digits))))
                  IN  IF ~a.is_some THEN None
                      ELSE from_digits(Tail(digits), a.value)

\* from_str taking a leading '-' the way it takes a leading '+'
from_str_minus(src) ==
    IF src = << >> THEN None
    ELSE LET digits == IF Head(src) \in { "+", "-" } THEN Tail(src) ELSE src
         IN  IF digits = << >> THEN None ELSE from_digits(digits, Zero)

\* from_str without the test for an empty string
from_str_empty(src) ==
    LET digits == IF src # << >> /\ Head(src) = "+" THEN Tail(src) ELSE src
    IN  from_digits(digits, Zero)

from_str(src) ==
    IF src = << >> THEN None
    ELSE LET digits == IF Head(src) = "+" THEN Tail(src) ELSE src
         IN  IF digits = << >> THEN None ELSE from_digits(digits, Zero)

(* ------------------------------------------------------------------ *)
(* pow                                                                *)
(* ------------------------------------------------------------------ *)

\* the while loop of pow and the statements after it
RECURSIVE pow_loop(_, _, _)
pow_loop(base_, exp, acc) ==
    IF exp > 1
    THEN LET acc1 == IF exp % 2 = 1 THEN checked_mul(acc, base_) ELSE Some(acc)
         IN  IF ~acc1.is_some THEN None
             ELSE LET sq == checked_mul(base_, base_)
                  IN  IF ~sq.is_some THEN None
                      ELSE pow_loop(sq.value, exp \div 2, acc1.value)
    ELSE IF exp = 1 THEN checked_mul(acc, base_)
    ELSE Some(acc)

\* pow squaring the base once more than it needs, as a loop on exp > 0 does
RECURSIVE pow_loop_extra(_, _, _)
pow_loop_extra(base_, exp, acc) ==
    IF exp > 0
    THEN LET acc1 == IF exp % 2 = 1 THEN checked_mul(acc, base_) ELSE Some(acc)
         IN  IF ~acc1.is_some THEN None
             ELSE LET sq == checked_mul(base_, base_)
                  IN  IF ~sq.is_some THEN None
                      ELSE pow_loop_extra(sq.value, exp \div 2, acc1.value)
    ELSE Some(acc)

pow_extra_square(base_, exp) == pow_loop_extra(base_, exp, One)

pow(base_, exp) == pow_loop(base_, exp, One)

(* ------------------------------------------------------------------ *)
(* Inputs                                                             *)
(* ------------------------------------------------------------------ *)

\* the characters the short inputs are made of: two digits, a space, the
\* signs, a letter of neither alphabet, the two markers and both alphabets
Chars ==
    { "0", "1", " ", "+", "-", "X", "b", "B" }
        \cup { SUFFIXES[i] : i \in 1..Len(SUFFIXES) }
        \cup { OBSOLETE_SUFFIXES[i] : i \in 1..Len(OBSOLETE_SUFFIXES) }

RECURSIVE StringsOfLen(_)
StringsOfLen(n) ==
    IF n = 0 THEN { << >> }
    ELSE { Append(q, c) : q \in StringsOfLen(n - 1), c \in Chars }

ShortStrings == UNION { StringsOfLen(n) : n \in 0..MaxLen }

\* the strings of the tests parse_num_invalid and parse_num_valid
TestStrings ==
    { << " ", " ", "1" >>, << "1", " ", " " >>, << " ", " ", "1", " ", " " >>,
      << "1", "X" >>, << "b" >>, << "1", " ", "b" >>, << "-", "1" >>,
      << "0" >>, << "1" >>, << "1", "b" >>,
      to_string(UsizeMax), to_string(UsizeMax) \o << "1" >> }
        \cup { << SUFFIXES[i] >> : i \in 1..Len(SUFFIXES) }
        \cup { << SUFFIXES[i], "B" >> : i \in 1..Len(SUFFIXES) }
        \cup { << "1", " ", SUFFIXES[i] >> : i \in 1..Len(SUFFIXES) }
        \cup { << "1", " ", SUFFIXES[i], "B" >> : i \in 1..Len(SUFFIXES) }
        \cup { << "1", SUFFIXES[i] >> : i \in 1..Len(SUFFIXES) }
        \cup { << "1", SUFFIXES[i], "B" >> : i \in 1..Len(SUFFIXES) }

\* a suffix and the multiplier it stands for where it is accepted
Units ==
    { [suffix |-> << >>, mult |-> 1],
      [suffix |-> << "b" >>, mult |-> 512],
      [suffix |-> << "K" >>, mult |-> 1024],
      [suffix |-> << "K", "B" >>, mult |-> 1000],
      [suffix |-> << "k" >>, mult |-> 1024],
      [suffix |-> << "k", "b" >>, mult |-> 1000] }

\* the largest literal that fits with each unit, and the one after it
BoundaryStrings ==
    { to_string(BigDiv(UsizeMax, u.mult)) \o u.suffix : u \in Units }
        \cup { to_string(BigAdd(BigDiv(UsizeMax, u.mult), One)) \o u.suffix : u \in Units }
        \cup { << "1", "5", "E" >>, << "1", "6", "E" >>,
               << "1", "8", "E", "B" >>, << "1", "9", "E", "B" >>,
               << "0", "0", "1", "K", "B" >>, << "+", "2", "k", "b" >> }

Inputs == ShortStrings \cup TestStrings \cup BoundaryStrings

\* ceil(sqrt(usize::max_value())), the root of the test pow_overflow
Root == BigPow(ToBig(2), 4 * UsizeBytes)

PowBases ==
    { ToBig(n) : n \in { 0, 1, 2, 3, 10, 255, 256, 512, 1000, 1024, 65535, 65536 } }
        \cup { BigPred(Root), Root, BigAdd(Root, One), BigPred(UsizeMax), UsizeMax }

(* ------------------------------------------------------------------ *)
(* The calls                                                          *)
(* ------------------------------------------------------------------ *)

VARIABLES
    pc,         \* "loop", "from_str", "pow" or "done"
    s,          \* the argument s of parse_num_common
    suffixes,   \* the argument suffixes
    obsolete,   \* the argument obsolete
    chars,      \* what the iterator chars has left: a prefix of s
    found_si,
    base,
    power,
    iters,      \* how many times the loop body was entered
    pow_base,   \* the arguments of a direct call of pow
    pow_exp,
    result      \* the value returned, once pc = "done"

vars == << pc, s, suffixes, obsolete, chars, found_si, base, power, iters,
           pow_base, pow_exp, result >>

Last(q) == q[Len(q)]

Front(q) == SubSeq(q, 1, Len(q) - 1)

\* the locals of parse_num_common as it enters its loop
EnterCommon(str, sfx, obs) ==
    /\ pc = "loop"
    /\ s = str
    /\ suffixes = sfx
    /\ obsolete = obs
    /\ chars = str
    /\ found_si = FALSE
    /\ base = 1
    /\ power = 1
    /\ iters = 0
    /\ pow_base = Zero
    /\ pow_exp = 0
    /\ result = None

parse_num_with_suffix == \E str \in Inputs : EnterCommon(str, SUFFIXES, FALSE)

parse_obsolete_num == \E str \in Inputs : EnterCommon(str, OBSOLETE_SUFFIXES, TRUE)

\* a call of pow on its own, as the tests pow_overflow and pow_correct make
CallPow ==
    /\ pc = "pow"
    /\ pow_base \in PowBases
    /\ pow_exp \in 0..MaxExp
    /\ s = << >>
    /\ suffixes = << >>
    /\ obsolete = FALSE
    /\ chars = << >>
    /\ found_si = FALSE
    /\ base = 1
    /\ power = 1
    /\ iters = 0
    /\ result = None

Init == parse_num_with_suffix \/ parse_obsolete_num \/ CallPow

\* chars.clone().rev().next()? on an exhausted iterator: return None
LoopEmpty ==
    /\ pc = "loop"
    /\ chars = << >>
    /\ iters' = iters + 1
    /\ result' = None
    /\ pc' = "done"
    /\ UNCHANGED << s, suffixes, obsolete, chars, found_si, base, power,
                    pow_base, pow_exp >>

\* MatchBlock with the legacy arm forgetting to set found_si
MatchBlock_no_flag ==
    /\ pc = "loop"
    /\ chars # << >>
    /\ Last(chars) = "b"
    /\ ~found_si
    /\ iters' = iters + 1
    /\ base' = 512
    /\ chars' = Front(chars)
    /\ found_si' = found_si
    /\ pc' = (IF obsolete THEN "loop" ELSE "from_str")
    /\ UNCHANGED << s, suffixes, obsolete, power, pow_base, pow_exp, result >>

\* MatchBlock with the modern arm going on scanning as the legacy one does
MatchBlock_no_break ==
    /\ pc = "loop"
    /\ chars # << >>
    /\ Last(chars) = "b"
    /\ ~found_si
    /\ iters' = iters + 1
    /\ base' = 512
    /\ chars' = Front(chars)
    /\ found_si' = TRUE
    /\ pc' = "loop"
    /\ UNCHANGED << s, suffixes, obsolete, power, pow_base, pow_exp, result >>

\* the arm 'b' if !found_si
MatchBlock ==
    /\ pc = "loop"
    /\ chars # << >>
    /\ Last(chars) = "b"
    /\ ~found_si
    /\ iters' = iters + 1
    /\ base' = 512
    /\ chars' = Front(chars)
    /\ IF obsolete
       THEN found_si' = TRUE /\ pc' = "loop"
       ELSE found_si' = found_si /\ pc' = "from_str"
    /\ UNCHANGED << s, suffixes, obsolete, power, pow_base, pow_exp, result >>

\* MatchSI forgetting to set found_si
MatchSI_no_flag ==
    /\ pc = "loop"
    /\ chars # << >>
    /\ Last(chars) = "B"
    /\ ~found_si
    /\ ~obsolete
    /\ iters' = iters + 1
    /\ chars' = Front(chars)
    /\ UNCHANGED << pc, s, suffixes, obsolete, found_si, base, power, pow_base,
                    pow_exp, result >>

\* the arm 'B' if !found_si && !obsolete
MatchSI ==
    /\ pc = "loop"
    /\ chars # << >>
    /\ Last(chars) = "B"
    /\ ~found_si
    /\ ~obsolete
    /\ iters' = iters + 1
    /\ chars' = Front(chars)
    /\ found_si' = TRUE
    /\ UNCHANGED << pc, s, suffixes, obsolete, base, power, pow_base, pow_exp,
                    result >>

\* MatchOther with the two bases the wrong way round
MatchOther_swapped ==
    /\ pc = "loop"
    /\ chars # << >>
    /\ ~(Last(chars) = "b" /\ ~found_si)
    /\ ~(Last(chars) = "B" /\ ~found_si /\ ~obsolete)
    /\ iters' = iters + 1
    /\ IF \E i \in 1..Len(suffixes) : suffixes[i] = Last(chars)
       THEN LET i == CHOOSE j \in 1..Len(suffixes) : suffixes[j] = Last(chars)
            IN  /\ base' = (IF found_si THEN 1024 ELSE 1000)
                /\ power' = i
                /\ chars' = Front(chars)
       ELSE UNCHANGED << base, power, chars >>
    /\ pc' = "from_str"
    /\ UNCHANGED << s, suffixes, obsolete, found_si, pow_base, pow_exp, result >>

\* MatchOther with the exponent one too large
MatchOther_off_by_one ==
    /\ pc = "loop"
    /\ chars # << >>
    /\ ~(Last(chars) = "b" /\ ~found_si)
    /\ ~(Last(chars) = "B" /\ ~found_si /\ ~obsolete)
    /\ iters' = iters + 1
    /\ IF \E i \in 1..Len(suffixes) : suffixes[i] = Last(chars)
       THEN LET i == CHOOSE j \in 1..Len(suffixes) : suffixes[j] = Last(chars)
            IN  /\ base' = (IF found_si THEN 1000 ELSE 1024)
                /\ power' = i + 1
                /\ chars' = Front(chars)
       ELSE UNCHANGED << base, power, chars >>
    /\ pc' = "from_str"
    /\ UNCHANGED << s, suffixes, obsolete, found_si, pow_base, pow_exp, result >>

\* the arm _: look the character up in suffixes, then leave the loop
MatchOther ==
    /\ pc = "loop"
    /\ chars # << >>
    /\ ~(Last(chars) = "b" /\ ~found_si)
    /\ ~(Last(chars) = "B" /\ ~found_si /\ ~obsolete)
    /\ iters' = iters + 1
    /\ IF \E i \in 1..Len(suffixes) : suffixes[i] = Last(chars)
       THEN LET i == CHOOSE j \in 1..Len(suffixes) :
                        /\ suffixes[j] = Last(chars)
                        /\ \A k \in 1..(j - 1) : suffixes[k] # Last(chars)
            IN  /\ base' = (IF found_si THEN 1000 ELSE 1024)
                /\ power' = i   \* i as u32 + 1, the code's i counting from 0
                /\ chars' = Front(chars)
       ELSE UNCHANGED << base, power, chars >>
    /\ pc' = "from_str"
    /\ UNCHANGED << s, suffixes, obsolete, found_si, pow_base, pow_exp, result >>

\* usize::from_str(chars.as_str()).ok()?.checked_mul(pow(base, power)?)
Finish ==
    /\ pc = "from_str"
    /\ LET v == from_str(chars)
           p == pow(ToBig(base), power)
       IN  result' = IF ~v.is_some THEN None
                     ELSE IF ~p.is_some THEN None
                     ELSE checked_mul(v.value, p.value)
    /\ pc' = "done"
    /\ UNCHANGED << s, suffixes, obsolete, chars, found_si, base, power, iters,
                    pow_base, pow_exp >>

\* the direct call returns
ReturnPow ==
    /\ pc = "pow"
    /\ result' = pow(pow_base, pow_exp)
    /\ pc' = "done"
    /\ UNCHANGED << s, suffixes, obsolete, chars, found_si, base, power, iters,
                    pow_base, pow_exp >>

Next == LoopEmpty \/ MatchBlock \/ MatchSI \/ MatchOther \/ Finish \/ ReturnPow

Spec == Init /\ [][Next]_vars

(* ------------------------------------------------------------------ *)
(* Vocabulary of the properties                                       *)
(* ------------------------------------------------------------------ *)

Modern == suffixes = SUFFIXES /\ ~obsolete

Legacy == suffixes = OBSOLETE_SUFFIXES /\ obsolete

IsParse == Modern \/ Legacy

IsPow == suffixes = << >>

Done == pc = "done"

AllDigits(q) == \A k \in 1..Len(q) : IsDigit(q[k])

\* a decimal integer literal: one or more digits
IsLiteral(q) == q # << >> /\ AllDigits(q)

\* the number a digit string denotes, with no limit on its size
RECURSIVE DecValue(_)
DecValue(q) ==
    IF q = << >> THEN Zero
    ELSE BigAdd(BigMul(DecValue(Front(q)), ToBig(10)), ToBig(to_digit(Last(q))))

\* the exact number x as a result: itself when it fits usize, none when not
Exact(x) == IF Fits(x) THEN Some(x) ELSE None

\* base^exp as a result, by repeated multiplication: the powers of a base of
\* 1 or more never decrease, so once one exceeds usize::MAX the later ones do,
\* and every power of 0 after the first is 0
RECURSIVE ExactPow(_, _)
ExactPow(b, e) ==
    IF e = 0 THEN Some(One)
    ELSE LET r == ExactPow(b, e - 1)
         IN  IF ~r.is_some THEN None ELSE Exact(BigMul(r.value, b))

\* the characters the scan has taken off the end of s
Consumed == SubSeq(s, Len(chars) + 1, Len(s))

Elems(q) == { q[k] : k \in 1..Len(q) }

Letters == Elems(suffixes)

CountIn(q, set) == Cardinality({ k \in 1..Len(q) : q[k] \in set })

(* ------------------------------------------------------------------ *)
(* C1                                                                 *)
(* ------------------------------------------------------------------ *)

\* what parse_num_with_suffix returned for "1" + SUFFIXES[i] and for
\* "1" + SUFFIXES[i] + "B" is `expect(1024, i)` and `expect(1000, i)`
ModernUnit(expect(_, _)) ==
    \A i \in 1..Len(SUFFIXES) :
        /\ (Done /\ Modern /\ s = << "1", SUFFIXES[i] >>)
              => result = expect(1024, i)
        /\ (Done /\ Modern /\ s = << "1", SUFFIXES[i], "B" >>)
              => result = expect(1000, i)

PowerValue(b, i) == Some(BigPow(ToBig(b), i))

PowerIfFits(b, i) == Exact(BigPow(ToBig(b), i))

\* C1 as stated: in modern mode, for every letter of K,M,G,T,P,E,Z,Y at
\* position i (counted from 1), "1" + letter parses to 1024^i and
\* "1" + letter + "B" parses to 1000^i.
C1_AsStated == ModernUnit(PowerValue)

\* C1 amended: in modern mode, for every letter at position i, "1" + letter
\* parses to 1024^i and "1" + letter + "B" to 1000^i when that power fits
\* usize, and to none when it does not (Z and Y, whose powers exceed 2^64 - 1).
C1_ModernUnits == ModernUnit(PowerIfFits)

\* "1EB" was parsed to 1000^6, the largest power of the alphabet that fits
C1_Witness ==
    /\ Done /\ Modern
    /\ s = << "1", "E", "B" >>
    /\ result = Some(BigPow(ToBig(1000), 6))

(* ------------------------------------------------------------------ *)
(* C2                                                                 *)
(* ------------------------------------------------------------------ *)

\* C2: in legacy mode, a decimal literal n followed by the letter at position
\* i of k,m parses to n * 1024^i, and n followed by that letter and 'b' parses
\* to n * 1000^i (each exactly, so none when the product does not fit usize);
\* and the base is 1000 in legacy mode only if 'b' was consumed first: the SI
\* flag is set and the 'b' ending s was taken before the letter.
C2_Legacy ==
    /\ \A i \in 1..Len(OBSOLETE_SUFFIXES) :
          /\ ( /\ Done /\ Legacy
               /\ s # << >> /\ Last(s) = OBSOLETE_SUFFIXES[i]
               /\ IsLiteral(Front(s)) )
                => result = Exact(BigMul(DecValue(Front(s)), BigPow(ToBig(1024), i)))
          /\ ( /\ Done /\ Legacy
               /\ Len(s) >= 2 /\ Last(s) = "b"
               /\ Last(Front(s)) = OBSOLETE_SUFFIXES[i]
               /\ IsLiteral(Front(Front(s))) )
                => result = Exact(BigMul(DecValue(Front(Front(s))),
                                         BigPow(ToBig(1000), i)))
    /\ (Legacy /\ base = 1000)
          => /\ found_si
             /\ Len(Consumed) = 2
             /\ Consumed[2] = "b"
             /\ Consumed[1] \in Letters

\* "1kb" was parsed in legacy mode to 1000
C2_Witness ==
    /\ Done /\ Legacy
    /\ s = << "1", "k", "b" >>
    /\ base = 1000
    /\ result = Some(ToBig(1000))

(* ------------------------------------------------------------------ *)
(* C3                                                                 *)
(* ------------------------------------------------------------------ *)

C4_ExactProduct ==
    (Done /\ IsParse /\ from_str(chars).is_some)
      => result = Exact(BigMul(from_str(chars).value, BigPow(ToBig(base), power)))

(* ------------------------------------------------------------------ *)
(* C5                                                                 *)
(* ------------------------------------------------------------------ *)

IsPlusLiteral(q) ==
    IsLiteral(q) \/ (q # << >> /\ Head(q) = "+" /\ IsLiteral(Tail(q)))

BareModern ==
    { << >>, << "b" >>, << "B" >> }
        \cup { << SUFFIXES[i] >> : i \in 1..Len(SUFFIXES) }
        \cup { << SUFFIXES[i], "B" >> : i \in 1..Len(SUFFIXES) }

BareLegacy ==
    { << >>, << "b" >> }
        \cup { << OBSOLETE_SUFFIXES[i] >> : i \in 1..Len(OBSOLETE_SUFFIXES) }
        \cup { << OBSOLETE_SUFFIXES[i], "b" >> : i \in 1..Len(OBSOLETE_SUFFIXES) }

\* C6: an input with no digit before its suffix yields none: in modern mode a
\* lone letter, a letter followed by 'B', a lone 'b', a lone 'B'; in legacy mode
\* a lone 'k' or 'm', a lone 'b', 'k' or 'm' followed by 'b'; the empty string
\* in both; each of them is consumed whole, and the result is none whether the
\* loop found no character left or from_str got the empty prefix.
C6_NoDigits ==
    /\ (Done /\ Modern /\ s \in BareModern) => (chars = << >> /\ result = None)
    /\ (Done /\ Legacy /\ s \in BareLegacy) => (chars = << >> /\ result = None)
    /\ (Done /\ IsParse /\ Elems(chars) \cap Elems(DigitChars) = { })
          => result = None

\* "KB" was parsed in modern mode: both characters were taken, from_str got
\* the empty prefix, and the result is none
C6_Witness ==
    /\ Done /\ Modern
    /\ s = << "K", "B" >>
    /\ chars = << >>
    /\ base = 1000
    /\ result = None

(* ------------------------------------------------------------------ *)
(* C7                                                                 *)
(* ------------------------------------------------------------------ *)

\* C7: for an input made only of decimal digits denoting v, both entry points
\* return v when v is at most usize::MAX and none when v exceeds it; so "0"
\* gives 0, the decimal form of MAX gives MAX, and that form with "1" appended
\* gives none.
C7_PlainNumber ==
    /\ (Done /\ IsParse /\ IsLiteral(s)) => result = Exact(DecValue(s))
    /\ (Done /\ IsParse /\ s = << "0" >>) => result = Some(Zero)
    /\ (Done /\ IsParse /\ s = to_string(UsizeMax)) => result = Some(UsizeMax)
    /\ (Done /\ IsParse /\ s = to_string(UsizeMax) \o << "1" >>) => result = None

\* the decimal form of MAX with "1" appended was parsed in legacy mode to none
C7_Witness ==
    /\ Done /\ Legacy
    /\ s = to_string(UsizeMax) \o << "1" >>
    /\ iters = 1
    /\ result = None

(* ------------------------------------------------------------------ *)
(* C8                                                                 *)
(* ------------------------------------------------------------------ *)

\* r is ceil(sqrt(usize::MAX)): (r - 1)^2 < MAX <= r^2
IsCeilSqrtMax(r) ==
    /\ r # Zero
    /\ BigLess(BigMul(BigPred(r), BigPred(r)), UsizeMax)
    /\ ~BigLess(BigMul(r, r), UsizeMax)

\* C8: for every base and exponent, pow returns base^exp when it fits usize
\* and none when it does not (never a wrapped value, never none for a result
\* that fits); pow(base, 0) = 1 for every base, 0 included; and with
\* r = ceil(sqrt(MAX)), pow(r, 2) is none while pow(r - 1, 2) is a value.
C8_Pow ==
    /\ (Done /\ IsPow) => result = ExactPow(pow_base, pow_exp)
    /\ (Done /\ IsPow /\ pow_exp = 0) => result = Some(One)
    /\ (Done /\ IsPow /\ pow_exp = 2 /\ IsCeilSqrtMax(pow_base)) => result = None
    /\ (Done /\ IsPow /\ pow_exp = 2 /\ IsCeilSqrtMax(BigAdd(pow_base, One)))
          => result.is_some

\* pow(65536, 3) returned 2^48: squaring the base once more would overflow
C8_Witness ==
    /\ Done /\ IsPow
    /\ pow_base = ToBig(65536)
    /\ pow_exp = 3
    /\ result = Some(BigPow(ToBig(2), 48))

(* ------------------------------------------------------------------ *)
(* C9                                                                 *)
(* ------------------------------------------------------------------ *)

\* C9: in every state of the scan, in both modes, base is one of 1, 512, 1000,
\* 1024 and power is in 1..8 (1..2 in legacy mode); base = 512 only if 'b' was
\* consumed; base is 1000 or 1024 only if a magnitude letter was consumed;
\* base = 1000 only if the SI flag was set before that letter (a marker was
\* consumed first); power # 1 only if a magnitude letter was consumed; and
\* with nothing consumed base = 1 and power = 1.
C9_BasePower ==
    IsParse =>
      /\ base \in { 1, 512, 1000, 1024 }
      /\ power \in 1..8
      /\ Legacy => power \in 1..2
      /\ base = 512 => "b" \in Elems(Consumed)
      /\ base \in { 1000, 1024 } => Elems(Consumed) \cap Letters # { }
      /\ base = 1000 =>
            /\ found_si
            /\ Len(Consumed) = 2
            /\ Consumed[2] \in { "b", "B" }
            /\ Consumed[1] \in Letters
      /\ power # 1 => Elems(Consumed) \cap Letters # { }
      /\ Consumed = << >> => (base = 1 /\ power = 1)

\* the scan of "1YB" in modern mode has ended with base 1000 and power 8
C9_Witness ==
    /\ pc = "from_str" /\ Modern
    /\ s = << "1", "Y", "B" >>
    /\ base = 1000
    /\ power = 8

(* ------------------------------------------------------------------ *)
(* C10                                                                *)
(* ------------------------------------------------------------------ *)

\* C10: for every input, in both modes, the loop is entered at most three
\* times and is over by then; at most two trailing characters are consumed, of
\* which at most one is a marker ('b' or 'B') and at most one a magnitude
\* letter; and every iteration that stays in the loop has consumed a character.
C10_ScanBounded ==
    IsParse =>
      /\ iters <= 3
      /\ pc = "loop" => (iters < 3 /\ Len(Consumed) = iters)
      /\ Len(Consumed) <= iters
      /\ Len(Consumed) <= 2
      /\ CountIn(Consumed, { "b", "B" }) <= 1
      /\ CountIn(Consumed, Letters) <= 1
      /\ chars = SubSeq(s, 1, Len(chars))

\* "KKB" was parsed in modern mode: the scan took 'B' and one 'K' in two
\* iterations and left the other 'K'
C10_Witness ==
    /\ Done /\ Modern
    /\ s = << "K", "K", "B" >>
    /\ chars = << "K" >>
    /\ iters = 2

====
